---- MODULE Spec2Model ----
(***************************************************************************)
(* Reinsurance Loss Portfolio Dashboard (successfulreinsurancedash.py).    *)
(*                                                                         *)
(* The script is re-run top to bottom on every user interaction.  The only *)
(* state that survives a run is st.session_state (file_uploaded, df) and   *)
(* the values of the widgets; everything else (filtered_df, the metrics,   *)
(* group_df, loss_group) is recomputed by each run.  One action of the     *)
(* model is one interaction followed by the whole run it triggers.         *)
(*                                                                         *)
(* Cells: a categorical cell is a string, NULL for a missing cell (pandas  *)
(* NaN); a numeric cell is <<v>> for the number v and <<>> for a missing   *)
(* cell.  Measures are integers.                                           *)
(***************************************************************************)
EXTENDS Integers, Sequences, FiniteSets, TLC

VARIABLES
    file_uploaded,   \* st.session_state.file_uploaded
    df,              \* st.session_state.df: <<>> when the key is absent, else <<frame>>
    message,         \* what the upload screen last reported through st.error
    uploaded_file,   \* the file last handed to st.sidebar.file_uploader (<<>>: none yet)
    theme,           \* widget values of the dashboard branch
    region_filter,
    year_filter,
    policy_filter,
    chart_type,
    dimension,
    pie_group,
    filtered_df,     \* the outputs of the last run of the dashboard branch
    metrics,
    group_df,
    loss_group,
    download,        \* the payload the run hands to the browser (a download click started it)
    fmt_n,           \* format_dollars_short: the argument ...
    fmt_out          \* ... and the string it returned (<<>> before the call)

session == <<file_uploaded, df, message, uploaded_file>>
widgets == <<theme, region_filter, year_filter, policy_filter, chart_type, dimension, pie_group>>
outputs == <<filtered_df, metrics, group_df, loss_group, download>>
fmt == <<fmt_n, fmt_out>>
vars == <<session, widgets, outputs, fmt>>

-----------------------------------------------------------------------------
(* Bounds of the model *)

MaxRows == 2          \* rows of an uploaded file

-----------------------------------------------------------------------------
(* Columns and cell values *)

REQUIRED_COLUMNS ==
    <<"Region", "Loss Amount", "Policy Type",
      "Year", "Claim Count", "Risk Category", "Premium Collected">>

SeqRange(s) == {s[i] : i \in 1..Len(s)}

NULL == "NaN"

\* The values a categorical column takes in the uploaded files, in the order
\* pandas sorts group keys (ascending).
ColumnValues(col) ==
    CASE col = "Region"        -> <<"A", "B">>
      [] col = "Year"          -> <<"2020", "2021">>
      [] col = "Policy Type"   -> <<"X", "Y">>
      [] col = "Risk Category" -> <<"High", "Low">>

\* One Record: a function from the seven column names to cells.
Row(region, year, policy, risk, loss, premium, claims) ==
    ("Region" :> region) @@ ("Year" :> year) @@ ("Policy Type" :> policy) @@
    ("Risk Category" :> risk) @@ ("Loss Amount" :> loss) @@
    ("Premium Collected" :> premium) @@ ("Claim Count" :> claims)

\* The records the uploaded files are made of.  The first two are the rows of
\* the scenario of the specification; the third has missing cells.
RowPool ==
    { Row("A",  "2020", "X", "Low",  <<100>>, <<200>>, <<2>>),
      Row("B",  "2021", "Y", "High", <<50>>,  <<0>>,   <<0>>),
      Row(NULL, "2020", "Y", NULL,   <<40>>,  <<>>,    <<>>) }

RECURSIVE SeqsUpTo(_, _)
SeqsUpTo(S, n) ==
    IF n = 0 THEN {<<>>}
    ELSE LET shorter == SeqsUpTo(S, n - 1)
         IN  shorter \cup {Append(s, x) : s \in {t \in shorter : Len(t) = n - 1}, x \in S}

-----------------------------------------------------------------------------
(* Uploaded files *)

\* name_csv: uploaded_file.name.endswith(".csv"); content: what the bytes are;
\* columns: the header the parser finds; rows: the records below it.
File(name_csv, content, columns, rows) ==
    [name_csv |-> name_csv, content |-> content, columns |-> columns, rows |-> rows]

Required == SeqRange(REQUIRED_COLUMNS)

GoodFiles ==
    {File(TRUE, "csv", Required, rows) : rows \in SeqsUpTo(RowPool, MaxRows)}
    \cup {File(FALSE, "xlsx", Required \cup {"Notes"}, <<>>)}

BadFiles ==
    { File(TRUE,  "csv",    Required \ {"Risk Category"}, <<>>),
      File(TRUE,  "csv",    (Required \ {"Region"}) \cup {"region"}, <<>>),
      File(FALSE, "xlsx",   {"Loss Amount"}, <<>>),
      File(TRUE,  "csv",    {}, <<>>),
      File(TRUE,  "binary", Required, <<>>),
      File(FALSE, "csv",    Required, <<>>),
      File(TRUE,  "xlsx",   Required, <<>>) }

Files == GoodFiles \cup BadFiles

\* pd.read_csv / pd.read_excel: the frame, or <<>> when the reader raises.
\* A reader raises on bytes of another format and on a file with no header.
Frame(columns, rows) == [columns |-> columns, rows |-> rows]

read_csv(file) ==
    IF file.content = "csv" /\ file.columns # {}
    THEN <<Frame(file.columns, file.rows)>> ELSE <<>>

read_excel(file) ==
    IF file.content = "xlsx" THEN <<Frame(file.columns, file.rows)>> ELSE <<>>

\* lines 41-44
ReadFile(file) == IF file.name_csv THEN read_csv(file) ELSE read_excel(file)

\* Mutant: any(...) in place of all(...).
HasAnyRequiredColumn(frame) ==
    \E i \in 1..Len(REQUIRED_COLUMNS) : REQUIRED_COLUMNS[i] \in frame.columns

\* Mutant: the names are compared without regard to case.
HasRequiredColumnsIgnoringCase(frame) ==
    LET fold(c) == IF c = "region" THEN "Region" ELSE c
    IN  \A i \in 1..Len(REQUIRED_COLUMNS) :
           \E c \in frame.columns : fold(c) = REQUIRED_COLUMNS[i]

\* line 46: all(col in df.columns for col in REQUIRED_COLUMNS)
HasRequiredColumns(frame) ==
    \A i \in 1..Len(REQUIRED_COLUMNS) : REQUIRED_COLUMNS[i] \in frame.columns

-----------------------------------------------------------------------------
(* Filter Engine *)

\* df[col].unique(): the distinct cells of a column, a missing cell included.
unique(rows, col) == {rows[i][col] : i \in 1..Len(rows)}

\* Mutant: the three masks joined with | in place of &.
FilterRowsAnyColumn(rows, regions, years, policies) ==
    LET keep(r) == \/ r["Region"] \in regions
                   \/ r["Year"] \in years
                   \/ r["Policy Type"] \in policies
    IN  SelectSeq(rows, keep)

\* Mutant: the mask is one row out of step with the frame (row i is kept when
\* row i - 1 is selected).
FilterRowsShiftedMask(rows, regions, years, policies) ==
    LET sel(r) == /\ r["Region"] \in regions
                  /\ r["Year"] \in years
                  /\ r["Policy Type"] \in policies
        kept == {i \in 2..Len(rows) : sel(rows[i - 1])}
        RECURSIVE Take(_)
        Take(i) == IF i > Len(rows) THEN <<>>
                   ELSE (IF i \in kept THEN <<rows[i]>> ELSE <<>>) \o Take(i + 1)
    IN  Take(1)

\* lines 70-74.  Series.isin matches a missing cell against a missing value
\* of the list, so membership is plain set membership over the cells.
FilterRows(rows, regions, years, policies) ==
    LET keep(r) == /\ r["Region"] \in regions
                   /\ r["Year"] \in years
                   /\ r["Policy Type"] \in policies
    IN  SelectSeq(rows, keep)

-----------------------------------------------------------------------------
(* Metrics Engine *)

\* Series.sum(): missing cells are skipped, the empty sum is 0.
RECURSIVE ColumnSum(_, _)
ColumnSum(rows, col) ==
    IF rows = <<>> THEN 0
    ELSE LET cell == Head(rows)[col]
         IN  (IF cell = <<>> THEN 0 ELSE cell[1]) + ColumnSum(Tail(rows), col)

Abs(x) == IF x < 0 THEN -x ELSE x

RECURSIVE GCD(_, _)
GCD(a, b) == IF b = 0 THEN a ELSE GCD(b, a % b)

\* A quotient is the fraction <<numerator, denominator>> in lowest terms with
\* a positive denominator; <<0, 0>> stands for a division by zero.
ZeroDivision == <<0, 0>>
Zero == <<0, 1>>

TrueDiv(a, b) ==
    IF b = 0 THEN ZeroDivision
    ELSE LET g == GCD(Abs(a), Abs(b))
             s == IF b < 0 THEN -1 ELSE 1
         IN  <<(s * a) \div g, (s * b) \div g>>

total_premium(f) == ColumnSum(f, "Premium Collected")
total_loss(f) == ColumnSum(f, "Loss Amount")
claim_count(f) == ColumnSum(f, "Claim Count")
\* Mutant: the guard tests the numerator.
loss_ratio_guarding_loss(f) ==
    IF total_loss(f) # 0 THEN TrueDiv(total_loss(f), total_premium(f)) ELSE Zero

loss_ratio(f) ==
    IF total_premium(f) # 0 THEN TrueDiv(total_loss(f), total_premium(f)) ELSE Zero
avg_severity(f) ==
    IF claim_count(f) # 0 THEN TrueDiv(total_loss(f), claim_count(f)) ELSE Zero
\* Mutant: the operands swapped.
loss_minus_premium(f) == total_loss(f) - total_premium(f)

underwriting_margin(f) == total_premium(f) - total_loss(f)
margin_percent(f) ==
    IF total_premium(f) # 0 THEN TrueDiv(underwriting_margin(f), total_premium(f)) ELSE Zero

\* lines 132-138
Metrics(f) ==
    [total_premium |-> total_premium(f), total_loss |-> total_loss(f),
     claim_count |-> claim_count(f), loss_ratio |-> loss_ratio(f),
     avg_severity |-> avg_severity(f),
     underwriting_margin |-> underwriting_margin(f),
     margin_percent |-> margin_percent(f)]

-----------------------------------------------------------------------------
(* Aggregation Engine *)

\* DataFrame.groupby(col): the group keys in ascending order.  groupby runs
\* with its default dropna=True, so a missing cell is no group key.
GroupKeys(rows, col) ==
    LET present(v) == \E i \in 1..Len(rows) : rows[i][col] = v
    IN  SelectSeq(ColumnValues(col), present)

GroupRows(rows, col, key) ==
    LET same(r) == r[col] = key
    IN  SelectSeq(rows, same)

\* line 167 and line 179: groupby(col)["Loss Amount"].sum().reset_index()
LossBy(rows, col) ==
    LET keys == GroupKeys(rows, col)
    IN  [i \in 1..Len(keys) |->
            (col :> keys[i]) @@
            ("Loss Amount" :> ColumnSum(GroupRows(rows, col, keys[i]), "Loss Amount"))]

\* lines 172-173
PerGroupMargin(premium, loss) == premium - loss

MarginBy(rows, col) ==
    LET keys == GroupKeys(rows, col)
    IN  [i \in 1..Len(keys) |->
            LET g == GroupRows(rows, col, keys[i])
                p == ColumnSum(g, "Premium Collected")
                l == ColumnSum(g, "Loss Amount")
            IN  (col :> keys[i]) @@ ("Premium Collected" :> p) @@ ("Loss Amount" :> l) @@
                ("Underwriting Margin" :> PerGroupMargin(p, l))]

\* lines 166-175
GroupDf(rows, ct, dim) ==
    IF ct = "Loss by" THEN LossBy(rows, dim) ELSE MarginBy(rows, dim)

-----------------------------------------------------------------------------
(* format_dollars_short (lines 76-85)

   An amount n is [neg, k, r]: n = (+/-)(1000 * k + r / 4) dollars, with
   0 <= r < 4000 quarter dollars.  Every such amount is a float64 exactly.
   n / 1_000, n / 1_000_000 and n / 1_000_000_000 are float64 quotients, and
   the format specs .1f and ,.0f print the float they are given rounded
   correctly to the nearest, a value exactly half way to the even digit. *)

Dollars(neg, k, r) == [neg |-> neg, k |-> k, r |-> r]

Digit(d) ==
    CASE d = 0 -> "0" [] d = 1 -> "1" [] d = 2 -> "2" [] d = 3 -> "3" [] d = 4 -> "4"
      [] d = 5 -> "5" [] d = 6 -> "6" [] d = 7 -> "7" [] d = 8 -> "8" [] d = 9 -> "9"

RECURSIVE NatStr(_)
NatStr(n) == IF n < 10 THEN Digit(n) ELSE NatStr(n \div 10) \o Digit(n % 10)

Pad3(n) == Digit(n \div 100) \o Digit((n \div 10) % 10) \o Digit(n % 10)

\* the "," of the format spec: groups of three digits
RECURSIVE Grouped(_)
Grouped(n) == IF n < 1000 THEN NatStr(n) ELSE Grouped(n \div 1000) \o "," \o Pad3(n % 1000)

SignStr(neg) == IF neg THEN "-" ELSE ""

\* floor(log2(m / 20)) for m >= 20
RECURSIVE Log2Of20th(_)
Log2Of20th(m) == IF m < 40 THEN 0 ELSE 1 + Log2Of20th(m \div 2)

Pow2Mod5(x) == CASE x = 0 -> 1 [] x = 1 -> 2 [] x = 2 -> 4 [] x = 3 -> 3

\* The quotient q = m / 20 (m odd, q >= 1) lies half way between two tenths.
\* It is a float64 only when 5 divides m; otherwise the float64 nearest to q
\* is above q exactly when the 53-bit significand was rounded up, that is
\* when m * 2^(50 - e) mod 5 is 3 or 4, e = floor(log2(q)).
FloatAboveTie(m) ==
    ((m % 5) * Pow2Mod5((50 - Log2Of20th(m)) % 4)) % 5 >= 3

\* t + rem / unit tenths (0 <= rem < unit), printed with one decimal
RoundTenths(t, rem, unit) ==
    IF 2 * rem < unit THEN t
    ELSE IF 2 * rem > unit THEN t + 1
    ELSE IF (2 * t + 1) % 5 = 0 THEN (IF t % 2 = 0 THEN t ELSE t + 1)
    ELSE IF FloatAboveTie(2 * t + 1) THEN t + 1 ELSE t

\* f"{x:.1f}" of a magnitude of t tenths
OneDecimal(t) == NatStr(t \div 10) \o "." \o Digit(t % 10)

\* f"{n / 1_000_000_000:.1f}", f"{n / 1_000_000:.1f}", f"{n / 1_000:.1f}"
Billions(n) ==
    SignStr(n.neg) \o
    OneDecimal(RoundTenths(n.k \div 100000, (n.k % 100000) * 4000 + n.r, 400000000))
Millions(n) ==
    SignStr(n.neg) \o OneDecimal(RoundTenths(n.k \div 100, (n.k % 100) * 4000 + n.r, 400000))
Thousands(n) ==
    SignStr(n.neg) \o OneDecimal(RoundTenths(10 * n.k + n.r \div 400, n.r % 400, 400))

\* f"{n:,.0f}"
Units(n) ==
    LET whole == n.r \div 4
        rem == n.r % 4
        i == IF rem < 2 THEN whole
             ELSE IF rem > 2 THEN whole + 1
             ELSE IF whole % 2 = 0 THEN whole ELSE whole + 1
        k == IF i = 1000 THEN n.k + 1 ELSE n.k
    IN  SignStr(n.neg) \o
        (IF k > 0 THEN Grouped(k) \o "," \o Pad3(i % 1000) ELSE NatStr(i))

\* Mutant: the thresholds are compared with n, not with abs(n).
format_dollars_short_signed(n) ==
    IF n.neg THEN "$" \o Units(n)
    ELSE IF n.k >= 1000000 THEN "$" \o Billions(n) \o "B"
    ELSE IF n.k >= 1000 THEN "$" \o Millions(n) \o "M"
    ELSE IF n.k >= 1 THEN "$" \o Thousands(n) \o "K"
    ELSE "$" \o Units(n)

\* abs_n >= 1_000_000_000, >= 1_000_000, >= 1_000: abs_n = 1000 * k + r / 4
format_dollars_short(n) ==
    IF n.k >= 1000000 THEN "$" \o Billions(n) \o "B"
    ELSE IF n.k >= 1000 THEN "$" \o Millions(n) \o "M"
    ELSE IF n.k >= 1 THEN "$" \o Thousands(n) \o "K"
    ELSE "$" \o Units(n)

\* The arguments the function is called with.
FormatThousands ==
    {0, 1, 2, 999, 1000, 1150, 1250, 2300, 999999, 1000000, 1250000, 1350000, 4000000}
FormatQuarters ==
    {0, 1, 2, 3, 6, 200, 600, 1000, 1400, 2000, 3000, 3800, 3996, 3998, 3999}
FormatInputs ==
    {Dollars(neg, k, r) : neg \in BOOLEAN, k \in FormatThousands, r \in FormatQuarters}
    \ {Dollars(TRUE, 0, 0)}

-----------------------------------------------------------------------------
(* The dashboard branch (lines 57-207): one run of the script with
   file_uploaded set.  It reads st.session_state.df and the widget values and
   writes nothing to st.session_state. *)

NoDownload == [kind |-> "none", rows |-> <<>>, kpis |-> <<>>]

\* lines 190-201: the sheet 'Filtered Data' holds the rows of filtered_df
download_filtered_excel(dataframe) ==
    [kind |-> "xlsx", rows |-> dataframe, kpis |-> <<>>]

\* lines 113-128, 205-207: one line per entry of kpis
generate_pdf_report(kpis) ==
    [kind |-> "pdf", rows |-> <<>>, kpis |-> <<kpis>>]

\* What the run computes from the frame of the session and the widget values.
Render(rows, regions, years, policies, ct, dim, pg) ==
    LET f == FilterRows(rows, regions, years, policies)
    IN  /\ filtered_df' = f
        /\ metrics' = Metrics(f)
        /\ group_df' = GroupDf(f, ct, dim)
        /\ loss_group' = LossBy(f, pg)

\* Mutant: the run filters the frame in place (st.session_state.df is
\* overwritten with the filtered frame).
DashboardFilteringInPlace(t, regions, years, policies, ct, dim, pg) ==
    /\ theme' = t
    /\ region_filter' = regions
    /\ year_filter' = years
    /\ policy_filter' = policies
    /\ chart_type' = ct
    /\ dimension' = dim
    /\ pie_group' = pg
    /\ Render(df[1].rows, regions, years, policies, ct, dim, pg)
    /\ df' = <<Frame(df[1].columns, FilterRows(df[1].rows, regions, years, policies))>>
    /\ UNCHANGED <<file_uploaded, message, uploaded_file, fmt>>

\* A run of the dashboard branch: the widgets take the given values, the
\* outputs are recomputed from st.session_state.df, the session is left alone.
Dashboard(t, regions, years, policies, ct, dim, pg) ==
    /\ theme' = t
    /\ region_filter' = regions
    /\ year_filter' = years
    /\ policy_filter' = policies
    /\ chart_type' = ct
    /\ dimension' = dim
    /\ pie_group' = pg
    /\ Render(df[1].rows, regions, years, policies, ct, dim, pg)
    /\ UNCHANGED <<session, fmt>>

Themes == {"Light", "Dark"}
ChartTypes == {"Loss by", "Underwriting Margin by"}
Dimensions == {"Region", "Year", "Policy Type"}
PieGroups == {"Region", "Policy Type", "Risk Category"}

-----------------------------------------------------------------------------
(* The upload screen (lines 21-55) *)

NoOutputs ==
    /\ filtered_df = <<>>
    /\ metrics = <<>>
    /\ group_df = <<>>
    /\ loss_group = <<>>
    /\ download = NoDownload

Init ==
    /\ file_uploaded = FALSE
    /\ df = <<>>
    /\ message = "none"
    /\ uploaded_file = <<>>
    /\ theme = "Light"
    /\ region_filter = {}
    /\ year_filter = {}
    /\ policy_filter = {}
    /\ chart_type = "Loss by"
    /\ dimension = "Region"
    /\ pie_group = "Region"
    /\ NoOutputs
    /\ fmt_n = Dollars(FALSE, 0, 0)
    /\ fmt_out = ""

\* lines 54-55: the reader raised
UploadUnreadable(file) ==
    /\ ~file_uploaded
    /\ ReadFile(file) = <<>>
    /\ uploaded_file' = <<file>>
    /\ message' = "Failed to read file"
    /\ UNCHANGED <<file_uploaded, df, widgets, outputs, fmt>>

\* lines 46-48: st.error, st.stop
UploadMissingColumns(file) ==
    /\ ~file_uploaded
    /\ ReadFile(file) # <<>>
    /\ ~HasRequiredColumns(ReadFile(file)[1])
    /\ uploaded_file' = <<file>>
    /\ message' = "Uploaded file is missing one or more required columns."
    /\ UNCHANGED <<file_uploaded, df, widgets, outputs, fmt>>

\* lines 50-52, then the run st.rerun() starts: the dashboard branch with
\* every widget at its default (first option; all distinct values selected).
UploadAccepted(file) ==
    /\ ~file_uploaded
    /\ ReadFile(file) # <<>>
    /\ HasRequiredColumns(ReadFile(file)[1])
    /\ LET frame == ReadFile(file)[1]
       IN  /\ uploaded_file' = <<file>>
           /\ df' = <<frame>>
           /\ file_uploaded' = TRUE
           /\ message' = "none"
           /\ theme' = "Light"
           /\ region_filter' = unique(frame.rows, "Region")
           /\ year_filter' = unique(frame.rows, "Year")
           /\ policy_filter' = unique(frame.rows, "Policy Type")
           /\ chart_type' = "Loss by"
           /\ dimension' = "Region"
           /\ pie_group' = "Region"
           /\ Render(frame.rows, unique(frame.rows, "Region"), unique(frame.rows, "Year"),
                     unique(frame.rows, "Policy Type"), "Loss by", "Region", "Region")
           /\ download' = NoDownload
    /\ UNCHANGED fmt

Upload == \E file \in Files :
    UploadUnreadable(file) \/ UploadMissingColumns(file) \/ UploadAccepted(file)

-----------------------------------------------------------------------------
(* The interactions of the dashboard *)

\* line 61
SelectTheme ==
    /\ file_uploaded
    /\ \E t \in Themes \ {theme} :
         Dashboard(t, region_filter, year_filter, policy_filter, chart_type, dimension, pie_group)
    /\ download' = NoDownload

\* line 65
SelectRegions ==
    /\ file_uploaded
    /\ \E sel \in (SUBSET unique(df[1].rows, "Region")) \ {region_filter} :
         Dashboard(theme, sel, year_filter, policy_filter, chart_type, dimension, pie_group)
    /\ download' = NoDownload

\* line 66
SelectYears ==
    /\ file_uploaded
    /\ \E sel \in (SUBSET unique(df[1].rows, "Year")) \ {year_filter} :
         Dashboard(theme, region_filter, sel, policy_filter, chart_type, dimension, pie_group)
    /\ download' = NoDownload

\* line 67
SelectPolicyTypes ==
    /\ file_uploaded
    /\ \E sel \in (SUBSET unique(df[1].rows, "Policy Type")) \ {policy_filter} :
         Dashboard(theme, region_filter, year_filter, sel, chart_type, dimension, pie_group)
    /\ download' = NoDownload

\* line 163
SelectChartType ==
    /\ file_uploaded
    /\ \E ct \in ChartTypes \ {chart_type} :
         Dashboard(theme, region_filter, year_filter, policy_filter, ct, dimension, pie_group)
    /\ download' = NoDownload

\* line 164
SelectDimension ==
    /\ file_uploaded
    /\ \E dim \in Dimensions \ {dimension} :
         Dashboard(theme, region_filter, year_filter, policy_filter, chart_type, dim, pie_group)
    /\ download' = NoDownload

\* line 178
SelectPieGroup ==
    /\ file_uploaded
    /\ \E pg \in PieGroups \ {pie_group} :
         Dashboard(theme, region_filter, year_filter, policy_filter, chart_type, dimension, pg)
    /\ download' = NoDownload

\* lines 196-201: the click hands over the payload built by the run that drew
\* the button, and starts another run
DownloadExcel ==
    /\ file_uploaded
    /\ download' = download_filtered_excel(filtered_df)
    /\ Dashboard(theme, region_filter, year_filter, policy_filter, chart_type, dimension, pie_group)

\* lines 205-207
DownloadPdf ==
    /\ file_uploaded
    /\ download' = generate_pdf_report(metrics)
    /\ Dashboard(theme, region_filter, year_filter, policy_filter, chart_type, dimension, pie_group)

Next ==
    \/ Upload
    \/ SelectTheme
    \/ SelectRegions
    \/ SelectYears
    \/ SelectPolicyTypes
    \/ SelectChartType
    \/ SelectDimension
    \/ SelectPieGroup
    \/ DownloadExcel
    \/ DownloadPdf

Spec == Init /\ [][Next]_vars

-----------------------------------------------------------------------------
(* format_dollars_short on its own: the argument is drawn from FormatInputs
   and the call stores what the function returns. *)

InitFormat ==
    /\ file_uploaded = FALSE
    /\ df = <<>>
    /\ message = "none"
    /\ uploaded_file = <<>>
    /\ theme = "Light"
    /\ region_filter = {}
    /\ year_filter = {}
    /\ policy_filter = {}
    /\ chart_type = "Loss by"
    /\ dimension = "Region"
    /\ pie_group = "Region"
    /\ NoOutputs
    /\ fmt_n \in FormatInputs
    /\ fmt_out = ""

FormatCall ==
    /\ fmt_out = ""
    /\ fmt_out' = format_dollars_short(fmt_n)
    /\ UNCHANGED <<session, widgets, outputs, fmt_n>>

NextFormat == FormatCall

SpecFormat == InitFormat /\ [][NextFormat]_vars

-----------------------------------------------------------------------------
(* Properties *)

Rows == df[1].rows

Selected(r) ==
    /\ r["Region"] \in region_filter
    /\ r["Year"] \in year_filter
    /\ r["Policy Type"] \in policy_filter

\* how often the record r occurs in the sequence s
Occurrences(s, r) == Cardinality({i \in 1..Len(s) : s[i] = r})

\* C1: the FilteredDataset is exactly the rows of the Dataset whose Region,
\* Year and Policy Type are all in the selection: every row of it is a row of
\* the Dataset that satisfies the three memberships, every row of the Dataset
\* that satisfies them is in it as often as in the Dataset, and it is empty
\* when one of the three selection sets is empty.
C1_FilterIsConjunction ==
    file_uploaded =>
        /\ \A j \in 1..Len(filtered_df) :
              /\ Selected(filtered_df[j])
              /\ \E i \in 1..Len(Rows) : Rows[i] = filtered_df[j]
        /\ \A i \in 1..Len(Rows) :
              Selected(Rows[i]) => Occurrences(filtered_df, Rows[i]) = Occurrences(Rows, Rows[i])
        /\ (region_filter = {} \/ year_filter = {} \/ policy_filter = {}) => filtered_df = <<>>

\* a selection that keeps some rows and drops others
C1_Witness ==
    /\ file_uploaded
    /\ filtered_df # <<>>
    /\ Len(filtered_df) < Len(Rows)
    /\ policy_filter # {} /\ policy_filter # unique(Rows, "Policy Type")

\* C2: underwriting_margin = total_premium - total_loss, the totals being the
\* column sums over the FilteredDataset, and every metric of the empty
\* FilteredDataset is 0.
C2_MarginIdentity ==
    file_uploaded =>
        /\ metrics.total_premium = ColumnSum(filtered_df, "Premium Collected")
        /\ metrics.total_loss = ColumnSum(filtered_df, "Loss Amount")
        /\ metrics.underwriting_margin = metrics.total_premium - metrics.total_loss
        /\ filtered_df = <<>> =>
              /\ metrics.total_premium = 0 /\ metrics.total_loss = 0
              /\ metrics.claim_count = 0 /\ metrics.underwriting_margin = 0
              /\ metrics.loss_ratio = Zero /\ metrics.avg_severity = Zero
              /\ metrics.margin_percent = Zero

\* the second filter of the scenario: Region = B only, margin 0 - 50
C2_Witness ==
    /\ file_uploaded
    /\ region_filter = {"B"}
    /\ metrics.total_premium = 0
    /\ metrics.underwriting_margin = -50

\* the fraction q is the quotient a / b
IsQuotient(q, a, b) == q[2] > 0 /\ q[1] * b = a * q[2]

\* C3: no division by zero is evaluated: loss_ratio and margin_percent are 0
\* when total_premium is 0, avg_severity is 0 when claim_count is 0, and
\* otherwise each is its quotient.
C3_ZeroDenominators ==
    file_uploaded =>
        /\ metrics.loss_ratio # ZeroDivision
        /\ metrics.avg_severity # ZeroDivision
        /\ metrics.margin_percent # ZeroDivision
        /\ IF metrics.total_premium = 0
           THEN metrics.loss_ratio = Zero /\ metrics.margin_percent = Zero
           ELSE /\ IsQuotient(metrics.loss_ratio, metrics.total_loss, metrics.total_premium)
                /\ IsQuotient(metrics.margin_percent, metrics.underwriting_margin,
                              metrics.total_premium)
        /\ IF metrics.claim_count = 0
           THEN metrics.avg_severity = Zero
           ELSE IsQuotient(metrics.avg_severity, metrics.total_loss, metrics.claim_count)

\* a loss with no premium and no claim
C3_Witness ==
    /\ file_uploaded
    /\ metrics.total_premium = 0
    /\ metrics.claim_count = 0
    /\ metrics.total_loss > 0

RECURSIVE TableSum(_, _)
TableSum(table, col) ==
    IF table = <<>> THEN 0 ELSE Head(table)[col] + TableSum(Tail(table), col)

\* C4: the sum of a measure over the rows of an AggregationTable is the sum
\* of the measure over the FilteredDataset, for the bar chart table and the
\* pie chart table.
C4_TotalsReconcile ==
    file_uploaded =>
        /\ TableSum(loss_group, "Loss Amount") = ColumnSum(filtered_df, "Loss Amount")
        /\ TableSum(group_df, "Loss Amount") = ColumnSum(filtered_df, "Loss Amount")
        /\ chart_type = "Underwriting Margin by" =>
              TableSum(group_df, "Premium Collected") = ColumnSum(filtered_df, "Premium Collected")

Parses(file) == ReadFile(file) # <<>>

\* C5: the uploaded file sets the Dataset and opens the dashboard exactly when
\* it parses and its header has the seven required names; otherwise an error
\* is reported, no Dataset is set, file_uploaded is False and an upload can
\* still be accepted.
C5_UploadAcceptance ==
    uploaded_file # <<>> =>
        LET file == uploaded_file[1]
        IN  /\ file_uploaded <=> (Parses(file) /\ Required \subseteq file.columns)
            /\ file_uploaded => df = <<Frame(file.columns, file.rows)>> /\ message = "none"
            /\ ~file_uploaded =>
                  /\ df = <<>>
                  /\ message # "none"
                  /\ Parses(file) <=> message # "Failed to read file"
                  /\ ENABLED Upload

\* a header that spells a required name in lower case is refused
C5_Witness ==
    /\ uploaded_file # <<>>
    /\ "region" \in uploaded_file[1].columns
    /\ ~file_uploaded
    /\ message = "Uploaded file is missing one or more required columns."

NumericColumns == {"Loss Amount", "Claim Count", "Premium Collected"}

IsNull(col, cell) == IF col \in NumericColumns THEN cell = <<>> ELSE cell = NULL

\* C6 as stated: every row of the accepted Dataset has a value in each of the
\* seven required columns.
C6_NoNullCells ==
    file_uploaded =>
        \A i \in 1..Len(Rows) : \A col \in Required : ~IsNull(col, Rows[i][col])

\* C6 as amended: the accepted Dataset has the seven required columns; its
\* cells are not looked at.
C6_RequiredColumnsPresent ==
    file_uploaded => df # <<>> /\ Required \subseteq df[1].columns

\* an accepted Dataset with a missing cell
C6_Witness ==
    /\ file_uploaded
    /\ \E i \in 1..Len(Rows) : \E col \in Required : IsNull(col, Rows[i][col])

\* C7: the margin table has exactly one row for each distinct value of the
\* dimension in the FilteredDataset, none for another value, and the row's
\* Underwriting Margin is the premium sum minus the loss sum of the filtered
\* rows with that value.
C7_MarginTable ==
    (file_uploaded /\ chart_type = "Underwriting Margin by") =>
        /\ \A v \in unique(filtered_df, dimension) :
              Cardinality({j \in 1..Len(group_df) : group_df[j][dimension] = v}) = 1
        /\ \A j \in 1..Len(group_df) :
              /\ group_df[j][dimension] \in unique(filtered_df, dimension)
              /\ group_df[j]["Underwriting Margin"] =
                    ColumnSum(GroupRows(filtered_df, dimension, group_df[j][dimension]),
                              "Premium Collected")
                    - ColumnSum(GroupRows(filtered_df, dimension, group_df[j][dimension]),
                                "Loss Amount")

\* C9: filtering the FilteredDataset again with the same selection gives the
\* FilteredDataset.
C9_FilterIdempotent ==
    file_uploaded =>
        FilterRows(filtered_df, region_filter, year_filter, policy_filter) = filtered_df

\* a Year selection that keeps one of two rows
C9_Witness ==
    /\ file_uploaded
    /\ Len(Rows) = 2
    /\ Len(filtered_df) = 1
    /\ year_filter = {"2021"}

\* C10: once the upload has succeeded no interaction changes the Dataset or
\* file_uploaded, and what is displayed is computed from the Dataset and the
\* current widget values alone.
DisplayFromCurrentSelection ==
    file_uploaded =>
        /\ filtered_df = FilterRows(Rows, region_filter, year_filter, policy_filter)
        /\ metrics = Metrics(filtered_df)
        /\ group_df = GroupDf(filtered_df, chart_type, dimension)
        /\ loss_group = LossBy(filtered_df, pie_group)

C10_SessionFrame ==
    /\ []DisplayFromCurrentSelection
    /\ [][file_uploaded => (file_uploaded' /\ df' = df)]_vars

\* a PDF download after the theme, a filter and the chart were changed
C10_Witness ==
    /\ file_uploaded
    /\ download.kind = "pdf"
    /\ theme = "Dark"
    /\ region_filter # unique(Rows, "Region")
    /\ chart_type = "Underwriting Margin by"
    /\ pie_group = "Risk Category"


\* the integers nearest to t0 + rem / unit (both neighbours when half way)
Nearest(t0, rem, unit) ==
    {t \in {t0, t0 + 1} : (t = t0 /\ 2 * rem <= unit) \/ (t = t0 + 1 /\ 2 * rem >= unit)}

\* C8: the function returns a string for every amount; by the absolute value
\* it is the amount in billions, millions or thousands to the nearest tenth
\* with the suffix B, M or K, or below 1000 the nearest integer with
\* thousands separators; the sign is kept and "$" comes first; and the five
\* examples of the specification come out as written.
C8_FormatContract ==
    fmt_out # "" =>
        LET n == fmt_n
            sign == IF n.neg THEN "-" ELSE ""
        IN  /\ IF n.k >= 1000000
               THEN \E t \in Nearest(n.k \div 100000, (n.k % 100000) * 4000 + n.r, 400000000) :
                       fmt_out = "$" \o sign \o OneDecimal(t) \o "B"
               ELSE IF n.k >= 1000
               THEN \E t \in Nearest(n.k \div 100, (n.k % 100) * 4000 + n.r, 400000) :
                       fmt_out = "$" \o sign \o OneDecimal(t) \o "M"
               ELSE IF n.k >= 1
               THEN \E t \in Nearest(10 * n.k + n.r \div 400, n.r % 400, 400) :
                       fmt_out = "$" \o sign \o OneDecimal(t) \o "K"
               ELSE \E i \in Nearest(n.r \div 4, n.r % 4, 4) :
                       fmt_out = "$" \o sign \o Grouped(i)
            /\ n = Dollars(FALSE, 0, 3996) => fmt_out = "$999"
            /\ n = Dollars(FALSE, 1, 2000) => fmt_out = "$1.5K"
            /\ n = Dollars(FALSE, 2300, 0) => fmt_out = "$2.3M"
            /\ n = Dollars(FALSE, 4000000, 0) => fmt_out = "$4.0B"
            /\ n = Dollars(TRUE, 0, 2000) => fmt_out = "$-500"

\* a negative amount above the first threshold: format(-1500)
C8_Witness ==
    /\ fmt_n = Dollars(TRUE, 1, 2000)
    /\ fmt_out = "$-1.5K"

====
